---- MODULE Spec2Model ----
(***************************************************************************)
(* Model of src/main.py: the invoice batch (process_invoices) over a       *)
(* spreadsheet, and the text helpers it is built from.                     *)
(*                                                                         *)
(* A text (a Python str) is a sequence of one-character strings.  The      *)
(* character "^2" stands for U+00B2 (superscript two): str.isdigit() is    *)
(* True for it and float()/int() reject it.                                *)
(*                                                                         *)
(* The remote services are modelled at their boundary: a request either    *)
(* returns (and then has had its effect) or raises (and then has had       *)
(* none).  Nobody else edits the tab during a run or between two runs.     *)
(* Console output is not modelled.  float() is exact on the digit strings  *)
(* of the model, which stay far below 2^53.                                *)
(*                                                                         *)
(* Spec is the batch: one run of process_invoices on a tab and one more    *)
(* run on the tab the first one left.  SpecAmount is the amount extraction *)
(* of lines 239-260 applied to one price cell.                             *)
(***************************************************************************)
EXTENDS Integers, Sequences, FiniteSets

VARIABLES
    sheet,      \* the spreadsheet tab: absolute row number -> 10 cells (A..J)
    sheet0,     \* the tab as it was when the current run started (history)
    rerun,      \* FALSE in the first run, TRUE in the run that follows it
    pc,         \* position of process_invoices
    rows,       \* the fetched values (line 222)
    start_row,  \* the fetched start row (line 222)
    i,          \* 0-based position of the loop in rows (line 228)
    processed,  \* line 227 / 286
    reported,   \* the count printed by line 293, -1 before that
    log,        \* what the current run did, in order (history)
    prev,       \* what the previous run did and how it ended (history)
    killedAt,   \* the position at which the run was terminated (history)
    text,       \* amount extraction: the raw price cell
    amount,     \* amount extraction: the result
    again,      \* amount extraction: the result for the digit string
    apc         \* amount extraction: position

vars == <<sheet, sheet0, rerun, pc, rows, start_row, i, processed, reported,
          log, prev, killedAt, text, amount, again, apc>>

batchVars == <<sheet, sheet0, rerun, pc, rows, start_row, i, processed,
               reported, log, prev, killedAt>>

amountVars == <<text, amount, again, apc>>

----------------------------------------------------------------------------
(* Bounds *)

MaxRows == 2

MaxLen == 3

----------------------------------------------------------------------------
(* Configuration, lines 20-46 *)

COL_Date == 0
COL_Full_Name == 1
COL_NIC == 2
COL_Contact_Number == 3
COL_Email_Address == 4
COL_Ticket_Price == 5
COL_Number_of_Tickets == 6
COL_Ticket_ID == 7
COL_Table_Number == 8
COL_Status == 9

DATA_RANGE == <<"A", "2", ":", "J">>

\* The columns of the data range, in order.
ColumnLetters == <<"A", "B", "C", "D", "E", "F", "G", "H", "I", "J">>

----------------------------------------------------------------------------
(* Characters and texts *)

DecimalDigits == {"0", "1", "2", "3", "4", "5", "6", "7", "8", "9"}

\* str.isdigit() for one character: the decimal digits and the digit-like
\* characters that are no decimal digits.
IsDigit(c) == c \in DecimalDigits \cup {"^2"}

\* str.isspace() for one character.
IsSpace(c) == c \in {" "}

\* str.upper() for one character.
UpperChar(c) ==
    CASE c = "s" -> "S"
      [] c = "e" -> "E"
      [] c = "n" -> "N"
      [] c = "t" -> "T"
      [] c = "a" -> "A"
      [] OTHER -> c

Upper(s) == [n \in DOMAIN s |-> UpperChar(s[n])]

RECURSIVE LStrip(_)
LStrip(s) == IF s # <<>> /\ IsSpace(Head(s)) THEN LStrip(Tail(s)) ELSE s

RECURSIVE RStrip(_)
RStrip(s) ==
    IF s # <<>> /\ IsSpace(s[Len(s)]) THEN RStrip(SubSeq(s, 1, Len(s) - 1)) ELSE s

\* str.strip()
Strip(s) == RStrip(LStrip(s))

\* str.startswith(p)
StartsWith(s, p) == Len(s) >= Len(p) /\ SubSeq(s, 1, Len(p)) = p

\* ''.join(filter(str.isdigit, s))
FilterDigits(s) == SelectSeq(s, IsDigit)

\* str.isdigit() for a text: non-empty and every character a digit.
IsDigitStr(s) == s # <<>> /\ \A n \in DOMAIN s : IsDigit(s[n])

\* s.replace('.', '', 1)
RECURSIVE ReplaceFirstDot(_)
ReplaceFirstDot(s) ==
    IF s = <<>> THEN s
    ELSE IF Head(s) = "." THEN Tail(s)
    ELSE <<Head(s)>> \o ReplaceFirstDot(Tail(s))

DigitValue(c) ==
    CASE c = "0" -> 0 [] c = "1" -> 1 [] c = "2" -> 2 [] c = "3" -> 3
      [] c = "4" -> 4 [] c = "5" -> 5 [] c = "6" -> 6 [] c = "7" -> 7
      [] c = "8" -> 8 [] c = "9" -> 9

RECURSIVE DecimalValue(_)
DecimalValue(s) ==
    IF s = <<>> THEN 0
    ELSE 10 * DecimalValue(SubSeq(s, 1, Len(s) - 1)) + DigitValue(s[Len(s)])

ValueError == [ok |-> FALSE, val |-> 0]

\* float(s) / int(s) for a text without sign, point or exponent: the value of
\* a non-empty text of decimal digits, ValueError for anything else.
ParseNumber(s) ==
    IF s # <<>> /\ \A n \in DOMAIN s : s[n] \in DecimalDigits
    THEN [ok |-> TRUE, val |-> DecimalValue(s)]
    ELSE ValueError

----------------------------------------------------------------------------
(* Row parsing, lines 229-262 *)

\* get(col, default), lines 230-231: the stripped cell when the row has the
\* column and the cell is not empty, else the default.
Get(row, col, default) ==
    IF col < Len(row) /\ row[col + 1] # <<>> THEN Strip(row[col + 1]) ELSE default

\* Lines 233-243.
ParseRow(row) ==
    LET amount_raw == Get(row, COL_Ticket_Price, <<"0">>)
    IN  [client     |-> Get(row, COL_Full_Name, <<>>),
         email      |-> Get(row, COL_Email_Address, <<>>),
         invoice_no |-> Get(row, COL_Ticket_ID, <<>>),
         inv_date   |-> Get(row, COL_Date, <<>>),
         tickets    |-> Get(row, COL_Number_of_Tickets, <<>>),
         table      |-> Get(row, COL_Table_Number, <<>>),
         amount_raw |-> amount_raw,
         amount     |-> FilterDigits(amount_raw),
         status     |-> Get(row, COL_Status, <<>>)]

\* Line 246.
MissingFields(rec) ==
    rec.client = <<>> \/ rec.email = <<>> \/ rec.amount = <<>> \/ rec.invoice_no = <<>>

\* Line 249 with an equality in place of startswith.
AlreadySentExact(rec) == Upper(rec.status) = <<"S", "E", "N", "T">>

\* Line 249.
AlreadySent(rec) == StartsWith(Upper(rec.status), <<"S", "E", "N", "T">>)

\* Line 260: float(amount) if amount and amount.replace('.', '', 1).isdigit()
\* else 0.0.  The result is a number or the ValueError float() raises.
InvoiceAmount(amt) ==
    IF amt # <<>> /\ IsDigitStr(ReplaceFirstDot(amt))
    THEN ParseNumber(amt)
    ELSE [ok |-> TRUE, val |-> 0]

\* The amount of a price cell: lines 239, 241 and 260 on a row whose price
\* column holds the cell.
ExtractAmount(cell) ==
    LET row == [c \in 1..(COL_Ticket_Price + 1) |->
                    IF c = COL_Ticket_Price + 1 THEN cell ELSE <<>>]
    IN  InvoiceAmount(ParseRow(row).amount)

----------------------------------------------------------------------------
(* The spreadsheet service *)

RECURSIVE TrimRow(_)
\* A row as values.get returns it: without its trailing empty cells.
TrimRow(r) ==
    IF r # <<>> /\ r[Len(r)] = <<>> THEN TrimRow(SubSeq(r, 1, Len(r) - 1)) ELSE r

\* The first row of the range "A2:J" of line 24, as the service reads it.
FirstDataRow == 2

\* values.get on the data range, lines 101-107: the rows from the first row
\* of the range to the last row that holds a value; no rows when none does.
ValuesGet(sh) ==
    LET used == {r \in DOMAIN sh : r >= FirstDataRow /\ TrimRow(sh[r]) # <<>>}
        last == IF used = {} THEN FirstDataRow - 1
                ELSE CHOOSE r \in used : \A q \in used : q <= r
    IN  [n \in 1..(last - FirstDataRow + 1) |-> TrimRow(sh[FirstDataRow + n - 1])]

RECURSIVE SplitHead(_)
\* DATA_RANGE.split(":")[0], line 112
SplitHead(s) ==
    IF s = <<>> \/ Head(s) = ":" THEN <<>> ELSE <<Head(s)>> \o SplitHead(Tail(s))

\* Lines 110-115: the number after the column letter of the range's start,
\* 2 when there is none or int() raises.
StartRowOf(range) ==
    LET d == FilterDigits(SplitHead(range))
        n == ParseNumber(IF d = <<>> THEN <<"2">> ELSE d)
    IN  IF n.ok THEN n.val ELSE 2

\* enumerate(rows, start=start_row), line 228: the index of the k-th row.
RowIndex(start, k) == start + k

\* The column of the cell "J<row_number>" of line 209.
StatusColumn == CHOOSE c \in DOMAIN ColumnLetters : ColumnLetters[c] = "J"

\* The column a status write lands in when COL_Status (0-based) is taken for
\* the 1-based column of the cell.
StatusColumnOffByOne == COL_Status

\* write_status_back, lines 205-216: values.update of one cell.
WriteCell(sh, row_number, col, status_text) ==
    [sh EXCEPT ![row_number] =
        [c \in 1..(IF Len(@) < col THEN col ELSE Len(@)) |->
            IF c = col THEN status_text
            ELSE IF c <= Len(@) THEN @[c] ELSE <<>>]]

write_status_back_wrong_column(sh, row_number, status_text) ==
    WriteCell(sh, row_number, StatusColumnOffByOne, status_text)

write_status_back(sh, row_number, status_text) ==
    WriteCell(sh, row_number, StatusColumn, status_text)

\* The text datetime.now() formats to, cut to one character.
Times == {<<"9">>}

\* datetime.now().strftime("SENT %Y-%m-%d %H:%M:%S"), line 283
Stamp(now) == <<"S", "E", "N", "T", " ">> \o now

----------------------------------------------------------------------------
(* The rows a sheet can hold *)

\* A row of the tab: columns A..J.
MkRow(client, email, price, ticket, status) ==
    <<<<"d">>, client, <<"n">>, <<"c">>, email, price, <<"2">>, ticket, <<"T">>, status>>

CompleteRow == MkRow(<<"a">>, <<"e">>, <<"5", "L">>, <<"t">>, <<>>)

EmptyRow == [c \in DOMAIN ColumnLetters |-> <<>>]

\* A row that ends after the contact number.
ShortRow == [c \in DOMAIN ColumnLetters |->
                IF c <= COL_Contact_Number + 1 THEN <<"x">> ELSE <<>>]

\* The complete row, the rows that differ from it in one cell (a blank name,
\* no email, a price without a digit, a price with a digit-like character, no
\* ticket id, a status that says sent), a row without a price whose status
\* says something else, the empty row and the short row.
RowInputs ==
    { CompleteRow,
      MkRow(<<" ">>, <<"e">>, <<"5", "L">>, <<"t">>, <<>>),
      MkRow(<<"a">>, <<>>, <<"5", "L">>, <<"t">>, <<>>),
      MkRow(<<"a">>, <<"e">>, <<>>, <<"t">>, <<"N", "O">>),
      MkRow(<<"a">>, <<"e">>, <<"L">>, <<"t">>, <<>>),
      MkRow(<<"a">>, <<"e">>, <<"5", "^2">>, <<"t">>, <<>>),
      MkRow(<<"a">>, <<"e">>, <<"5", "L">>, <<>>, <<>>),
      MkRow(<<"a">>, <<"e">>, <<"5", "L">>, <<"t">>, <<" ", "s", "E", "n", "t", " ", "1">>),
      EmptyRow,
      ShortRow }

HeaderRow == [c \in DOMAIN ColumnLetters |-> <<"h">>]

\* The tabs: the header in row 1 and MaxRows rows below it.
Sheets ==
    { [r \in 1..(MaxRows + 1) |-> IF r = 1 THEN HeaderRow ELSE data[r - 1]] :
        data \in [1..MaxRows -> RowInputs] }

----------------------------------------------------------------------------
(* process_invoices, lines 219-293 *)

Running == {"start", "loop", "send", "mark", "count"}
Ended == {"nodata", "done", "aborted", "killed"}

NoRun == [pc |-> "none", killedAt |-> "none", idx |-> 0,
          sent |-> {}, marked |-> {}, failed |-> {}]

Event(k, ev, arg) == [k |-> k, idx |-> RowIndex(start_row, k), ev |-> ev, arg |-> arg]

Record == ParseRow(rows[i + 1])

NextRow == /\ i' = i + 1
           /\ pc' = "loop"

\* Lines 220-222 raise (the service rejects the request): the run ends.
FetchError ==
    /\ pc = "start"
    /\ pc' = "aborted"
    /\ UNCHANGED <<sheet, sheet0, rerun, rows, start_row, i, processed, reported,
                   log, prev, killedAt, amountVars>>

\* Lines 220-227.
Fetch ==
    /\ pc = "start"
    /\ rows' = ValuesGet(sheet)
    /\ start_row' = StartRowOf(DATA_RANGE)
    /\ pc' = IF rows' = <<>> THEN "nodata" ELSE "loop"
    /\ i' = 0
    /\ processed' = 0
    /\ UNCHANGED <<sheet, sheet0, rerun, reported, log, prev, killedAt,
                   amountVars>>

\* Lines 228-251: the next row is incomplete or already SENT.
SkipRow ==
    /\ pc = "loop"
    /\ i < Len(rows)
    /\ MissingFields(Record) \/ AlreadySent(Record)
    /\ log' = Append(log, Event(i, "skip", <<>>))
    /\ NextRow
    /\ UNCHANGED <<sheet, sheet0, rerun, rows, start_row, processed, reported,
                   prev, killedAt, amountVars>>

\* Line 260 raises outside the try of line 264: process_invoices ends.
BuildInvoiceError ==
    /\ pc = "loop"
    /\ i < Len(rows)
    /\ ~MissingFields(Record)
    /\ ~AlreadySent(Record)
    /\ ~InvoiceAmount(Record.amount).ok
    /\ log' = Append(log, Event(i, "value_error", <<>>))
    /\ pc' = "aborted"
    /\ UNCHANGED <<sheet, sheet0, rerun, rows, start_row, i, processed, reported,
                   prev, killedAt, amountVars>>

\* Lines 253-267: the invoice of the next row and its document.
Render ==
    /\ pc = "loop"
    /\ i < Len(rows)
    /\ ~MissingFields(Record)
    /\ ~AlreadySent(Record)
    /\ InvoiceAmount(Record.amount).ok
    /\ log' = Append(log, Event(i, "render", <<>>))
    /\ pc' = "send"
    /\ UNCHANGED <<sheet, sheet0, rerun, rows, start_row, i, processed, reported,
                   prev, killedAt, amountVars>>

\* A handler that records the failure in the status cell.
RenderErrorMarksFailed ==
    /\ pc = "loop"
    /\ i < Len(rows)
    /\ ~MissingFields(Record)
    /\ ~AlreadySent(Record)
    /\ InvoiceAmount(Record.amount).ok
    /\ log' = Append(log, Event(i, "render_error", <<>>))
    /\ sheet' = write_status_back(sheet, RowIndex(start_row, i),
                                  <<"F", "A", "I", "L", "E", "D">>)
    /\ NextRow
    /\ UNCHANGED <<sheet0, rerun, rows, start_row, processed, reported,
                   prev, killedAt, amountVars>>

\* Lines 253-262, then lines 266-267 raise and lines 288-291 catch.
RenderError ==
    /\ pc = "loop"
    /\ i < Len(rows)
    /\ ~MissingFields(Record)
    /\ ~AlreadySent(Record)
    /\ InvoiceAmount(Record.amount).ok
    /\ log' = Append(log, Event(i, "render_error", <<>>))
    /\ NextRow
    /\ UNCHANGED <<sheet, sheet0, rerun, rows, start_row, processed, reported,
                   prev, killedAt, amountVars>>

\* A send that writes the status before the message is handed over.
SendAfterMark ==
    /\ pc = "send"
    /\ \E now \in Times :
          sheet' = write_status_back(sheet, RowIndex(start_row, i), Stamp(now))
    /\ log' = Append(log, Event(i, "send", Record.email))
    /\ pc' = "mark"
    /\ UNCHANGED <<sheet0, rerun, rows, start_row, i, processed, reported,
                   prev, killedAt, amountVars>>

\* Lines 270-280.
Send ==
    /\ pc = "send"
    /\ log' = Append(log, Event(i, "send", Record.email))
    /\ pc' = "mark"
    /\ UNCHANGED <<sheet, sheet0, rerun, rows, start_row, i, processed, reported,
                   prev, killedAt, amountVars>>

\* A send that raises and is tried again.
SendErrorRetry ==
    /\ pc = "send"
    /\ log' = Append(log, Event(i, "send_error", Record.email))
    /\ Len(log) < 4 * MaxRows
    /\ UNCHANGED <<pc, i>>
    /\ UNCHANGED <<sheet, sheet0, rerun, rows, start_row, processed, reported,
                   prev, killedAt, amountVars>>

\* Line 280 raises, lines 288-291 catch.
SendError ==
    /\ pc = "send"
    /\ log' = Append(log, Event(i, "send_error", Record.email))
    /\ NextRow
    /\ UNCHANGED <<sheet, sheet0, rerun, rows, start_row, processed, reported,
                   prev, killedAt, amountVars>>

\* Lines 283-284.
Mark ==
    /\ pc = "mark"
    /\ \E now \in Times :
          /\ sheet' = write_status_back(sheet, RowIndex(start_row, i), Stamp(now))
          /\ log' = Append(log, Event(i, "mark", Stamp(now)))
    /\ pc' = "count"
    /\ UNCHANGED <<sheet0, rerun, rows, start_row, i, processed, reported,
                   prev, killedAt, amountVars>>

\* A status write that raises after the row was counted.
MarkErrorCounted ==
    /\ pc = "mark"
    /\ log' = Append(log, Event(i, "mark_error", <<>>))
    /\ processed' = processed + 1
    /\ NextRow
    /\ UNCHANGED <<sheet, sheet0, rerun, rows, start_row, reported,
                   prev, killedAt, amountVars>>

\* Line 284 raises, lines 288-291 catch.
MarkError ==
    /\ pc = "mark"
    /\ log' = Append(log, Event(i, "mark_error", <<>>))
    /\ NextRow
    /\ UNCHANGED <<sheet, sheet0, rerun, rows, start_row, processed, reported,
                   prev, killedAt, amountVars>>

\* Lines 286-287.
Count ==
    /\ pc = "count"
    /\ processed' = processed + 1
    /\ NextRow
    /\ UNCHANGED <<sheet, sheet0, rerun, rows, start_row, reported, log,
                   prev, killedAt, amountVars>>

\* Line 293.
Report ==
    /\ pc = "loop"
    /\ i >= Len(rows)
    /\ reported' = processed
    /\ pc' = "done"
    /\ UNCHANGED <<sheet, sheet0, rerun, rows, start_row, i, processed, log,
                   prev, killedAt, amountVars>>

\* The process is terminated from outside.
Kill ==
    /\ pc \in Running
    /\ killedAt' = pc
    /\ pc' = "killed"
    /\ UNCHANGED <<sheet, sheet0, rerun, rows, start_row, i, processed, reported,
                   log, prev, amountVars>>

\* The batch is run again on the same tab, lines 296-304.
RunAgain ==
    /\ pc \in Ended
    /\ ~rerun
    /\ rerun' = TRUE
    /\ prev' = [pc |-> pc, killedAt |-> killedAt, idx |-> RowIndex(start_row, i),
                sent |-> {log[n].idx : n \in {m \in DOMAIN log : log[m].ev = "send"}},
                marked |-> {log[n].idx : n \in {m \in DOMAIN log : log[m].ev = "mark"}},
                failed |-> {log[n].idx : n \in {m \in DOMAIN log :
                               log[m].ev \in {"render_error", "send_error", "mark_error"}}}]
    /\ sheet0' = sheet
    /\ pc' = "start"
    /\ rows' = <<>>
    /\ start_row' = 0
    /\ i' = 0
    /\ processed' = 0
    /\ reported' = -1
    /\ log' = <<>>
    /\ killedAt' = "none"
    /\ UNCHANGED <<sheet, amountVars>>

Init ==
    /\ sheet \in Sheets
    /\ sheet0 = sheet
    /\ rerun = FALSE
    /\ pc = "start"
    /\ rows = <<>>
    /\ start_row = 0
    /\ i = 0
    /\ processed = 0
    /\ reported = -1
    /\ log = <<>>
    /\ prev = NoRun
    /\ killedAt = "none"
    /\ text = <<>>
    /\ amount = ValueError
    /\ again = ValueError
    /\ apc = "off"

Next ==
    \/ FetchError
    \/ Fetch
    \/ SkipRow
    \/ BuildInvoiceError
    \/ Render
    \/ RenderError
    \/ Send
    \/ SendError
    \/ Mark
    \/ MarkError
    \/ Count
    \/ Report
    \/ Kill
    \/ RunAgain

Spec == Init /\ [][Next]_vars

----------------------------------------------------------------------------
(* Amount extraction on its own: a price cell, its amount, and the amount of *)
(* the digit string the extraction kept.                                    *)

PriceChars == {"5", "0", "L", ",", ".", " ", "^2"}

PriceExamples ==
    { <<"5", ",", "0", "0", "0", "L", "K", "R">>,
      <<"4", "9", ".", "9", "9">>,
      <<"L", "K", "R">>,
      <<"5", "0", "0", "0", "L", "K", "R">> }

PriceTexts ==
    UNION { [1..n -> PriceChars] : n \in 0..MaxLen } \cup PriceExamples

\* The digit string line 241 keeps of a price cell.
AmountDigits(cell) ==
    LET row == [c \in 1..(COL_Ticket_Price + 1) |->
                    IF c = COL_Ticket_Price + 1 THEN cell ELSE <<>>]
    IN  ParseRow(row).amount

InitAmount ==
    /\ sheet = [r \in 1..1 |-> HeaderRow]
    /\ sheet0 = sheet
    /\ rerun = FALSE
    /\ pc = "off"
    /\ rows = <<>>
    /\ start_row = 0
    /\ i = 0
    /\ processed = 0
    /\ reported = -1
    /\ log = <<>>
    /\ prev = NoRun
    /\ killedAt = "none"
    /\ text \in PriceTexts
    /\ amount = ValueError
    /\ again = ValueError
    /\ apc = "raw"

Extract ==
    /\ apc = "raw"
    /\ amount' = ExtractAmount(text)
    /\ apc' = "extracted"
    /\ UNCHANGED <<batchVars, text, again>>

ExtractAgain ==
    /\ apc = "extracted"
    /\ again' = ExtractAmount(AmountDigits(text))
    /\ apc' = "again"
    /\ UNCHANGED <<batchVars, text, amount>>

NextAmount ==
    \/ Extract
    \/ ExtractAgain

SpecAmount == InitAmount /\ [][NextAmount]_vars

----------------------------------------------------------------------------
(* What a run did *)

SENT == <<"S", "E", "N", "T">>

\* The events of log l for the sheet row idx whose kind is in evs.
EventsOf(l, idx, evs) == {n \in DOMAIN l : l[n].idx = idx /\ l[n].ev \in evs}

Did(l, idx, ev) == EventsOf(l, idx, {ev}) # {}

ErrorEvents == {"render_error", "send_error", "mark_error"}

SendAttempts(l, idx) == EventsOf(l, idx, {"send", "send_error"})

MarkAttempts(l, idx) == EventsOf(l, idx, {"mark", "mark_error"})

\* The row was not skipped: its invoice was built and its document asked for.
TakenUp(l, idx) == EventsOf(l, idx, {"render", "render_error"}) # {}

\* The sheet rows of the fetched rows.
FetchedIdx == {FirstDataRow + k : k \in 0..(Len(rows) - 1)}

\* The raw cell of a sheet row, empty when the row is short.
Cell(row, col) == IF col < Len(row) THEN row[col + 1] ELSE <<>>

HasDecimalDigit(s) == \E n \in DOMAIN s : s[n] \in DecimalDigits

\* The conditions of the specification on a row, on the cells without their
\* surrounding whitespace.
Complete(row) ==
    /\ Strip(Cell(row, COL_Full_Name)) # <<>>
    /\ Strip(Cell(row, COL_Email_Address)) # <<>>
    /\ Strip(Cell(row, COL_Ticket_ID)) # <<>>
    /\ HasDecimalDigit(Cell(row, COL_Ticket_Price))

SaysSent(row) == StartsWith(Upper(Strip(Cell(row, COL_Status))), SENT)

Eligible(row) == Complete(row) /\ ~SaysSent(row)

\* The run is over and was not terminated from outside.
Returned == pc \in {"nodata", "done", "aborted"}

\* The loop is past the sheet row idx.
Past(idx) == pc \notin {"start", "off"} /\ RowIndex(start_row, i) > idx

----------------------------------------------------------------------------
(* Claims *)

\* C1: when a run has returned, every fetched row that is complete (client,
\* email, invoice number present, a digit in the price cell) and whose status
\* does not say SENT has had its document generated and a send to its email
\* address attempted (a generation that raised counts as attempted).
C1_EligibleRowsProcessed ==
    Returned =>
        \A idx \in FetchedIdx :
            Eligible(rows[idx - FirstDataRow + 1]) =>
                /\ EventsOf(log, idx, {"render", "render_error"}) # {}
                /\ Did(log, idx, "render") =>
                      \E n \in SendAttempts(log, idx) :
                          log[n].arg = Strip(Cell(rows[idx - FirstDataRow + 1],
                                                  COL_Email_Address))

\* C2: for a fetched row that is not complete (an empty or missing price cell
\* included) or whose status says SENT, no send is attempted and no status
\* cell is written.
C2_IneligibleRowsUntouched ==
    \A idx \in FetchedIdx :
        ~Eligible(rows[idx - FirstDataRow + 1]) =>
            /\ SendAttempts(log, idx) = {}
            /\ MarkAttempts(log, idx) = {}
            /\ sheet[idx] = sheet0[idx]

\* C3, as stated: a row whose send succeeded in the previous run is skipped
\* by this run, so it is sent at most once over the two runs.
C3_SentOnceOverTwoRuns ==
    rerun =>
        \A idx \in DOMAIN sheet :
            idx \in prev.sent => SendAttempts(log, idx) = {}

\* C3, amended: a row whose send and status write both succeeded in the
\* previous run is skipped by this run: no document, no send, no write.
C3_MarkedRowSkipped ==
    rerun =>
        \A idx \in DOMAIN sheet :
            (idx \in prev.sent /\ idx \in prev.marked) =>
                /\ EventsOf(log, idx, {"render", "render_error"}) = {}
                /\ SendAttempts(log, idx) = {}
                /\ MarkAttempts(log, idx) = {}
                /\ Past(idx) => Did(log, idx, "skip")

C3_Witness ==
    /\ rerun
    /\ \E idx \in DOMAIN sheet :
          /\ idx \in prev.sent
          /\ idx \in prev.marked
          /\ Did(log, idx, "skip")

\* C4: when rendering, sending or status writing raised for a row, the run
\* still visits every later fetched row and ends by reporting the count.
C4_FailureNeverAborts ==
    (Returned /\ \E n \in DOMAIN log : log[n].ev \in ErrorEvents) =>
        /\ pc = "done"
        /\ reported = processed
        /\ \A idx \in FetchedIdx :
              EventsOf(log, idx, {"skip", "render", "render_error"}) # {}

\* C5: a status is written only right after the row's send succeeded in the
\* same run and starts with SENT; a row for which rendering, sending or
\* marking raised keeps its row of the sheet as it was, is still eligible,
\* and is taken up again by the next run.
C5_MarkOnlyAfterSend ==
    /\ \A n \in DOMAIN log :
          log[n].ev = "mark" =>
              /\ n > 1
              /\ log[n - 1].ev = "send"
              /\ log[n - 1].idx = log[n].idx
              /\ StartsWith(log[n].arg, SENT)
              /\ Cell(sheet[log[n].idx], COL_Status) = log[n].arg
    /\ \A idx \in DOMAIN sheet :
          /\ sheet[idx] # sheet0[idx] => Did(log, idx, "mark")
          /\ EventsOf(log, idx, ErrorEvents) # {} =>
                /\ sheet[idx] = sheet0[idx]
                /\ pc \in Ended =>
                      /\ ~MissingFields(ParseRow(TrimRow(sheet[idx])))
                      /\ ~AlreadySent(ParseRow(TrimRow(sheet[idx])))
          /\ (rerun /\ idx \in prev.failed /\ Past(idx)) =>
                TakenUp(log, idx)

C5_Witness ==
    /\ rerun
    /\ \E idx \in DOMAIN sheet :
          /\ idx \in prev.failed
          /\ idx \in prev.sent
          /\ Did(log, idx, "mark")
          /\ StartsWith(Cell(sheet[idx], COL_Status), SENT)

InFlight == {"send", "mark", "count"}

C8_ReportedCount ==
    pc = "done" =>
        /\ reported = Cardinality({idx \in FetchedIdx :
                                      Did(log, idx, "send") /\ Did(log, idx, "mark")})
        /\ reported <= Len(rows)
        /\ reported + Cardinality({idx \in FetchedIdx :
                                      \/ Did(log, idx, "skip")
                                      \/ EventsOf(log, idx, ErrorEvents) # {}})
              = Len(rows)

C8_Witness ==
    /\ pc = "done"
    /\ reported = 1
    /\ \E idx \in FetchedIdx : Did(log, idx, "skip") \/ Did(log, idx, "send_error")

\* C9: a run works on the rows of its one fetch in sheet order, finishes a
\* row before it begins the next, leaves no row out, and makes at most one
\* send attempt and at most one status write per row.
C9_SequentialNoRetry ==
    /\ pc \in {"count", "done"} => rows = ValuesGet(sheet0)
    /\ pc = "count" => rows # ValuesGet(sheet)
    /\ \A k \in 0..(i - 1) : \E n \in DOMAIN log : log[n].k = k
    /\ \A n \in DOMAIN log :
          /\ log[n].k <= i
          /\ log[n].idx = FirstDataRow + log[n].k
          /\ log[n].ev \in {"skip", "value_error", "render", "render_error"} =>
                (n > 1 => log[n - 1].k < log[n].k)
          /\ log[n].ev \in {"send", "send_error"} =>
                (n > 1 /\ log[n - 1].ev = "render" /\ log[n - 1].k = log[n].k)
          /\ log[n].ev \in {"mark", "mark_error"} =>
                (n > 1 /\ log[n - 1].ev = "send" /\ log[n - 1].k = log[n].k)
    /\ \A idx \in FetchedIdx :
          /\ Cardinality(SendAttempts(log, idx)) <= 1
          /\ Cardinality(MarkAttempts(log, idx)) <= 1

C9_Witness ==
    /\ pc = "done"
    /\ \E a, b \in FetchedIdx :
          /\ a < b
          /\ Did(log, a, "send_error")
          /\ Did(log, b, "mark")

\* C10: the amount of a price cell is the number its decimal digits spell, in
\* order, and 0 when it has none; the amount of the digit string that was
\* kept is the same amount.
C10_AmountIsDecimalDigits ==
    /\ apc \in {"extracted", "again"} =>
          amount = [ok |-> TRUE,
                    val |-> DecimalValue(SelectSeq(text, LAMBDA c : c \in DecimalDigits))]
    /\ apc = "again" => again = amount

====
